---------------------------- MODULE Spec2Model ----------------------------
(***************************************************************************)
(* envious: flat (key, value) string pairs -> nested Value tree -> serde   *)
(* Deserializer.  Model of Config (src/src/config.rs) and of Value/Parser  *)
(* (src/src/value.rs).                                                     *)
(*                                                                         *)
(* A Rust String is a sequence of one-character strings, so that           *)
(* splitting, prefix stripping, ASCII lowercasing and digit parsing are    *)
(* computed character by character as the code does.  Option<T> is a       *)
(* sequence of length 0 (None) or 1 (Some).                                *)
(***************************************************************************)
EXTENDS Integers, Sequences, FiniteSets, TLC

VARIABLES config, pc, input, base, err, current, cursor, out

vars == <<config, pc, input, base, err, current, cursor, out>>

---------------------------------------------------------------------------
(* Bounds and input universes                                              *)

\* number of (key, value) pairs the input iterator yields at most
MaxPairs == 3

None == <<>>

Some(x) == <<x>>

\* separators handed to with_separator ("__" is the default, "#" is custom_sep's)
Separators == { <<"_", "_">>, <<"#">> }

\* prefixes handed to with_prefix
Prefixes == { <<"P", "_">> }

\* keys of the tree-building runs: a, A, a__b, a__c, a__b__c, a#b, a_#b
TreeKeys ==
    { <<"a">>, <<"A">>,
      <<"a", "_", "_", "b">>, <<"a", "_", "_", "c">>,
      <<"a", "_", "_", "b", "_", "_", "c">>,
      <<"a", "#", "b">>, <<"a", "_", "#", "b">> }

TreeValues == { <<"1">>, <<"x">> }

\* 18446744073709551616 = usize::MAX + 1 on a 64-bit target
OverflowKey ==
    << "1", "8", "4", "4", "6", "7", "4", "4", "0", "7",
       "3", "7", "0", "9", "5", "5", "1", "6", "1", "6" >>

\* keys of the sequence-decoding runs: a, 1, 01, 1a, 2, 11, usize::MAX + 1
SeqKeys ==
    { <<"a">>, <<"1">>, <<"0", "1">>, <<"1", "a">>, <<"2">>, <<"1", "1">>,
      OverflowKey }

SeqValues == { <<"1">>, <<"x">> }

\* keys of the full-pipeline runs: a, A, a__B, A__b, P_A
CaseKeys ==
    { <<"a">>, <<"A">>,
      <<"a", "_", "_", "B">>, <<"A", "_", "_", "b">>,
      <<"P", "_", "A">>, <<"p", "_", "A">> }

CaseValues == { <<"A">> }

\* keys of the prefixed runs: P_a, p_a, P_a__b, a, a__b, P_
PrefixKeys ==
    { <<"P", "_", "a">>, <<"p", "_", "a">>,
      <<"P", "_", "a", "_", "_", "b">>,
      <<"a">>, <<"a", "_", "_", "b">>,
      <<"P", "_">> }

\* keys and raw values of the scalar-decoding runs: a, b, a__b and
\* 1, -1, 300, true
ShapeKeys == { <<"a">>, <<"b">>, <<"a", "_", "_", "b">> }

ShapeValues ==
    { <<"1">>, <<"-", "1">>, <<"3", "0", "0">>, <<"t", "r", "u", "e">> }

\* the `$ty` of forward_to_deserializer! the runs request
PrimitiveTypes == { "u8", "i8", "bool", "f64" }

\* separators that differ in letter case only, and keys of the runs under
\* them: aXb, axb, P_aXb, a
CaseSeparators == { <<"X">>, <<"x">> }

CaseSeparatorKeys ==
    { <<"a", "X", "b">>, <<"a", "x", "b">>,
      <<"P", "_", "a", "X", "b">>, <<"a">> }

\* expected-name lists serde passes as `fields` / `variants`
Schemas == { <<<<"A">>, <<"a">>>>, <<<<"B">>, <<"b">>, <<"a">>>> }

---------------------------------------------------------------------------
(* Characters and strings (std)                                            *)

Digits == <<"0", "1", "2", "3", "4", "5", "6", "7", "8", "9">>

Uppercase ==
    << "A", "B", "C", "D", "E", "F", "G", "H", "I", "J", "K", "L", "M",
       "N", "O", "P", "Q", "R", "S", "T", "U", "V", "W", "X", "Y", "Z" >>

Lowercase ==
    << "a", "b", "c", "d", "e", "f", "g", "h", "i", "j", "k", "l", "m",
       "n", "o", "p", "q", "r", "s", "t", "u", "v", "w", "x", "y", "z" >>

Occurs(tbl, c) == \E i \in 1..Len(tbl) : tbl[i] = c

IndexOf(tbl, c) == CHOOSE i \in 1..Len(tbl) : tbl[i] = c

\* char::is_ascii_digit
IsAsciiDigit(c) == Occurs(Digits, c)

\* u8::to_ascii_lowercase
ToAsciiLowercase(c) ==
    IF Occurs(Uppercase, c) THEN Lowercase[IndexOf(Uppercase, c)] ELSE c

\* a lowercasing of the first character only
LowercaseFirstChar(s) ==
    [i \in 1..Len(s) |-> IF i = 1 THEN ToAsciiLowercase(s[i]) ELSE s[i]]

\* String::make_ascii_lowercase / str::to_ascii_lowercase
MakeAsciiLowercase(s) == [i \in 1..Len(s) |-> ToAsciiLowercase(s[i])]

\* str::eq_ignore_ascii_case
EqIgnoreAsciiCase(a, b) ==
    /\ Len(a) = Len(b)
    /\ \A i \in 1..Len(a) : ToAsciiLowercase(a[i]) = ToAsciiLowercase(b[i])

\* the byte value of an ASCII character (the order String's Ord compares by)
AsciiCode(c) ==
    IF Occurs(Digits, c) THEN 47 + IndexOf(Digits, c)
    ELSE IF Occurs(Uppercase, c) THEN 64 + IndexOf(Uppercase, c)
    ELSE IF Occurs(Lowercase, c) THEN 96 + IndexOf(Lowercase, c)
    ELSE IF c = "_" THEN 95
    ELSE IF c = "#" THEN 35
    ELSE 0

\* str::starts_with
StartsWith(s, p) == Len(p) <= Len(s) /\ SubSeq(s, 1, Len(p)) = p

\* a strip that hands on a string lacking the prefix as it is
StripPrefixOrKeep(s, p) ==
    IF StartsWith(s, p) THEN Some(SubSeq(s, Len(p) + 1, Len(s))) ELSE Some(s)

\* str::strip_prefix
StripPrefix(s, p) ==
    IF StartsWith(s, p) THEN Some(SubSeq(s, Len(p) + 1, Len(s))) ELSE None

\* the positions at which `sep` occurs in `s`
Matches(s, sep) ==
    { i \in 1..(Len(s) - Len(sep) + 1) : SubSeq(s, i, i + Len(sep) - 1) = sep }

Least(S) == CHOOSE i \in S : \A j \in S : i <= j

RECURSIVE Split(_, _)
\* str::split(&str): leftmost, non-overlapping matches; an empty pattern
\* matches at every character boundary
Split(s, sep) ==
    IF sep = <<>>
    THEN <<<<>>>> \o [i \in 1..Len(s) |-> <<s[i]>>] \o <<<<>>>>
    ELSE IF Matches(s, sep) = {}
    THEN <<s>>
    ELSE LET i == Least(Matches(s, sep))
         IN  <<SubSeq(s, 1, i - 1)>> \o Split(SubSeq(s, i + Len(sep), Len(s)), sep)

---------------------------------------------------------------------------
(* Value (src/src/value.rs)                                                *)

\* Value::Simple(String)
Simple(v) == [kind |-> "Simple", val |-> v, values |-> <<>>]

\* Value::Map(Vec<(String, Value)>): `values` holds <<key, child>> pairs
Map(vs) == [kind |-> "Map", val |-> <<>>, values |-> vs]

\* EnvDeserializationError
InvalidEnvNesting(path) == [kind |-> "InvalidEnvNesting", path |-> path]

UnsupportedValue == [kind |-> "UnsupportedValue", path |-> <<>>]

InvalidNestedValues == [kind |-> "InvalidNestedValues", path |-> <<>>]

\* GenericDeserialization("'{val}' could not be deserialized due to: {e}"):
\* `path` holds the value the message quotes
GenericDeserialization(val) == [kind |-> "GenericDeserialization", path |-> <<val>>]

\* a lookup that never finds the segment: every path gets fresh Map nodes
FindNever(values, seg) == 0

\* a lookup that returns the last child with the key instead of the first
FindLast(values, seg) ==
    IF \E i \in 1..Len(values) : values[i][1] = seg
    THEN CHOOSE i \in 1..Len(values) :
            /\ values[i][1] = seg
            /\ \A j \in (i + 1)..Len(values) : values[j][1] # seg
    ELSE 0

\* values.iter_mut().find(|(key, _)| key == path[0]): index of the first
\* child with that key, 0 when there is none
Find(values, seg) ==
    IF \E i \in 1..Len(values) : values[i][1] = seg
    THEN Least({ i \in 1..Len(values) : values[i][1] = seg })
    ELSE 0

RECURSIVE InsertAtDirty(_, _, _)
\* an insertion that pushes the Map for its first segment before it finds
\* a Simple in the way
InsertAtDirty(self, path, value) ==
    IF self.kind = "Simple"
    THEN [tree |-> self, err |-> Some(InvalidEnvNesting(path))]
    ELSE LET found == Find(self.values, path[1])
         IN  IF found # 0 /\ self.values[found][2].kind = "Simple"
             THEN [tree |-> Map(Append(self.values, <<path[1], Map(<<>>)>>)),
                   err |-> Some(InvalidEnvNesting(path))]
             ELSE LET values1 == IF found # 0
                                 THEN self.values
                                 ELSE Append(self.values, <<path[1], Map(<<>>)>>)
                      at   == IF found # 0 THEN found ELSE Len(values1)
                      val  == values1[at][2]
                      rest == Tail(path)
                      sub  == IF Len(rest) > 1
                              THEN InsertAtDirty(val, rest, value)
                              ELSE [tree |-> Map(Append(val.values,
                                                        <<rest[1], value>>)),
                                    err |-> None]
                 IN  [tree |-> Map([values1 EXCEPT ![at] = <<@[1], sub.tree>>]),
                      err |-> sub.err]

RECURSIVE InsertAt(_, _, _)
\* Value::insert_at: the tree after the call (mutated in place) and the
\* error it returned, if any
InsertAt(self, path, value) ==
    IF self.kind = "Simple"
    THEN [tree |-> self, err |-> Some(InvalidEnvNesting(path))]
    ELSE LET found == Find(self.values, path[1])
         IN  IF found # 0 /\ self.values[found][2].kind = "Simple"
             THEN [tree |-> self, err |-> Some(InvalidEnvNesting(path))]
             ELSE LET values1 == IF found # 0
                                 THEN self.values
                                 ELSE Append(self.values, <<path[1], Map(<<>>)>>)
                      at   == IF found # 0 THEN found ELSE Len(values1)
                      val  == values1[at][2]
                      rest == Tail(path)
                      sub  == IF Len(rest) > 1
                              THEN InsertAt(val, rest, value)
                              ELSE IF val.kind = "Simple"
                              THEN [tree |-> val,
                                    err |-> Some(InvalidEnvNesting(rest))]
                              ELSE [tree |-> Map(Append(val.values,
                                                        <<rest[1], value>>)),
                                    err |-> None]
                 IN  [tree |-> Map([values1 EXCEPT ![at] = <<@[1], sub.tree>>]),
                      err |-> sub.err]

---------------------------------------------------------------------------
(* Config (src/src/config.rs)                                              *)

\* Config::new
ConfigNew ==
    [prefix |-> None, case_sensitive |-> FALSE,
     separator |-> <<"_", "_">>, ordered_arrays |-> TRUE]

\* a key handed on in the casing it came in
CoerceKeyAsIs(cfg, key) == key

\* the lowercasing build_from_iter applies to a key
CoerceKey(cfg, key) ==
    IF ~cfg.case_sensitive THEN MakeAsciiLowercase(key) ELSE key

\* the closure of filter_map in build_from_iter: None when the pair is
\* discarded, else the (key, Value::Simple(value)) handed to create_parser
FilterMap(cfg, key, value) ==
    LET key1 == CoerceKey(cfg, key)
    IN  IF cfg.prefix # None
        THEN LET prefix == IF cfg.case_sensitive
                           THEN cfg.prefix[1]
                           ELSE MakeAsciiLowercase(cfg.prefix[1])
                 stripped == StripPrefix(key1, prefix)
             IN  IF stripped = None
                 THEN None
                 ELSE Some([key |-> stripped[1], value |-> Simple(value)])
        ELSE Some([key |-> key1, value |-> Simple(value)])

\* the loop body with a single-segment key put in front of the root's
\* children instead of pushed behind them
CreateParserStepFront(cfg, tree, key, value) ==
    LET path == Split(key, cfg.separator)
    IN  IF Len(path) = 1
        THEN [tree |-> Map(<<<<key, value>>>> \o tree.values), err |-> None]
        ELSE InsertAt(tree, path, value)

\* the loop body giving a single-segment key's value to the root child
\* that already has the key, if there is one
CreateParserStepReplace(cfg, tree, key, value) ==
    LET path == Split(key, cfg.separator)
    IN  IF Len(path) = 1
        THEN IF Find(tree.values, key) # 0
             THEN [tree |-> Map([tree.values EXCEPT
                                    ![Find(tree.values, key)] = <<key, value>>]),
                   err |-> None]
             ELSE [tree |-> Map(Append(tree.values, <<key, value>>)), err |-> None]
        ELSE InsertAt(tree, path, value)

\* the loop body splitting at the separator lowercased like the keys when
\* case-sensitivity is off
CreateParserStepFoldedSeparator(cfg, tree, key, value) ==
    LET path == Split(key, CoerceKey(cfg, cfg.separator))
    IN  IF Len(path) = 1
        THEN [tree |-> Map(Append(tree.values, <<key, value>>)), err |-> None]
        ELSE InsertAt(tree, path, value)

\* the loop body splitting every key at the default "__", whatever
\* separator is configured
CreateParserStepDefaultSeparator(cfg, tree, key, value) ==
    LET path == Split(key, <<"_", "_">>)
    IN  IF Len(path) = 1
        THEN [tree |-> Map(Append(tree.values, <<key, value>>)), err |-> None]
        ELSE InsertAt(tree, path, value)

\* the body of the `for (key, value) in iter` loop of create_parser
CreateParserStep(cfg, tree, key, value) ==
    LET path == Split(key, cfg.separator)
    IN  IF Len(path) = 1
        THEN [tree |-> Map(Append(tree.values, <<key, value>>)), err |-> None]
        ELSE InsertAt(tree, path, value)


\* one pair through build_from_iter: the filter_map closure, then, for a
\* retained pair, one turn of create_parser's loop
BuildStep(cfg, tree, key, value) ==
    LET item == FilterMap(cfg, key, value)
    IN  IF item = None
        THEN [tree |-> tree, err |-> None]
        ELSE CreateParserStep(cfg, tree, item[1].key, item[1].value)

RECURSIVE BuildFromIter(_, _)
\* build_from_iter up to T::deserialize: create_parser over the filtered
\* pairs, stopping at the first error (`?`)
BuildFromIter(cfg, pairs) ==
    IF pairs = <<>>
    THEN [tree |-> Map(<<>>), err |-> None]
    ELSE LET before == BuildFromIter(cfg, SubSeq(pairs, 1, Len(pairs) - 1))
             last   == pairs[Len(pairs)]
         IN  IF before.err # None
             THEN before
             ELSE BuildStep(cfg, before.tree, last.key, last.value)

\* a coercion that takes the last matching expected name instead of the first
CoerceItemLast(cfg, key, corrected_cases) ==
    IF ~cfg.case_sensitive
    THEN LET matching == { i \in 1..Len(corrected_cases) :
                             EqIgnoreAsciiCase(corrected_cases[i], key) }
         IN  IF matching # {}
             THEN corrected_cases[CHOOSE i \in matching : \A j \in matching : j <= i]
             ELSE key
    ELSE key

\* Config::maybe_coerce_case, for one (key, value) item
CoerceItem(cfg, key, corrected_cases) ==
    IF ~cfg.case_sensitive
    THEN IF \E i \in 1..Len(corrected_cases) :
                EqIgnoreAsciiCase(corrected_cases[i], key)
         THEN corrected_cases[Least({ i \in 1..Len(corrected_cases) :
                                        EqIgnoreAsciiCase(corrected_cases[i], key) })]
         ELSE key
    ELSE key

\* Config::maybe_coerce_case: the iterator of (key, value) it returns
MaybeCoerceCase(cfg, values, corrected_cases) ==
    [i \in 1..Len(values) |->
        <<CoerceItem(cfg, values[i][1], corrected_cases), values[i][2]>>]

---------------------------------------------------------------------------
(* The sort token of deserialize_seq (src/src/value.rs)                    *)

\* usize::MAX of a 64-bit target, in decimal: 18446744073709551615
UsizeMax ==
    << "1", "8", "4", "4", "6", "7", "4", "4", "0", "7",
       "3", "7", "0", "9", "5", "5", "1", "6", "1", "5" >>

\* String's Ord: bytewise lexicographic, a proper prefix first
StrLess(a, b) ==
    \E i \in 1..(Len(b)) :
        /\ i <= Len(a) + 1
        /\ SubSeq(a, 1, i - 1) = SubSeq(b, 1, i - 1)
        /\ \/ i = Len(a) + 1
           \/ AsciiCode(a[i]) < AsciiCode(b[i])

\* a usize is held as its decimal digits without leading zeros
Canonical(digits) ==
    LET nz == { i \in 1..Len(digits) : digits[i] # "0" }
    IN  IF nz = {} THEN <<"0">> ELSE SubSeq(digits, Least(nz), Len(digits))

\* usize's Ord on two canonical numbers
UsizeLess(x, y) == Len(x) < Len(y) \/ (Len(x) = Len(y) /\ StrLess(x, y))

\* str::parse::<usize>().ok() on a string of ASCII digits: None when the
\* string is empty and when the number does not fit a usize
ParseUsize(digits) ==
    IF digits = <<>>
    THEN None
    ELSE IF UsizeLess(UsizeMax, Canonical(digits))
    THEN None
    ELSE Some(Canonical(digits))

\* the length of the leading run of ASCII digits (the `while chars.peek()` loop)
DigitRun(key) ==
    IF \E i \in 1..Len(key) : ~IsAsciiDigit(key[i])
    THEN Least({ i \in 1..Len(key) : ~IsAsciiDigit(key[i]) }) - 1
    ELSE Len(key)

\* the (num, rest) token deserialize_seq computes from a child key
SortToken(key) ==
    [num  |-> ParseUsize(SubSeq(key, 1, DigitRun(key))),
     rest |-> SubSeq(key, DigitRun(key) + 1, Len(key))]

\* the derived Ord of (Option<usize>, String)
TokenLess(s, t) ==
    \/ s.num = None /\ t.num # None
    \/ s.num # None /\ t.num # None /\ UsizeLess(s.num[1], t.num[1])
    \/ s.num = t.num /\ StrLess(s.rest, t.rest)

\* BTreeMap::insert: an equal key keeps its place and takes the new value
BTreeMapInsert(m, e) ==
    IF \E j \in 1..Len(m) : m[j].tok = e.tok
    THEN LET j == CHOOSE j \in 1..Len(m) : m[j].tok = e.tok
         IN  [m EXCEPT ![j] = e]
    ELSE LET n == Cardinality({ j \in 1..Len(m) : TokenLess(m[j].tok, e.tok) })
         IN  SubSeq(m, 1, n) \o <<e>> \o SubSeq(m, n + 1, Len(m))

RECURSIVE Collect(_, _)
\* .collect::<BTreeMap<_, _>>() of the first n children of a Map
Collect(values, n) ==
    IF n = 0
    THEN <<>>
    ELSE BTreeMapInsert(Collect(values, n - 1),
                        [tok |-> SortToken(values[n][1]),
                         node |-> values[n][2], idx |-> n])

---------------------------------------------------------------------------
(* Parser as a serde Deserializer (src/src/value.rs)                       *)
(* An entry is one item handed to serde: `key` is Some(key) for a map      *)
(* entry and None for a sequence element, `node` is the child Parser's     *)
(* current, `idx` records which child of the decoded Map it came from      *)
(* (0: the decoded node itself).                                           *)

NoOut == [op |-> "none", entries |-> <<>>, err |-> None, leaf |-> None,
          names |-> <<>>]

\* Parser::deserialize_seq
SeqEntries(cfg, node) ==
    IF node.kind = "Simple"
    THEN <<[key |-> None, node |-> node, idx |-> 0]>>
    ELSE LET m == Collect(node.values, Len(node.values))
         IN  [i \in 1..Len(m) |->
                 [key |-> None, node |-> m[i].node, idx |-> m[i].idx]]

\* the MapDeserializer over (key, Parser) pairs
MapEntries(values) ==
    [i \in 1..Len(values) |->
        [key |-> Some(values[i][1]), node |-> values[i][2], idx |-> i]]


\* what Parser::deserialize_seq hands to serde
SeqOut(cfg, node) ==
    [NoOut EXCEPT !.op = "seq", !.entries = SeqEntries(cfg, node)]

\* a map request that takes a Simple for a Map without children
MapOutLenient(node) ==
    [NoOut EXCEPT !.op = "map", !.entries = MapEntries(node.values)]

\* what Parser::deserialize_map hands to serde
MapOut(node) ==
    IF node.kind = "Simple"
    THEN [NoOut EXCEPT !.op = "map", !.err = Some(UnsupportedValue)]
    ELSE [NoOut EXCEPT !.op = "map", !.entries = MapEntries(node.values)]

\* what Parser::deserialize_struct hands to serde: a Map has its keys
\* coerced, then deserialize_map
StructOut(cfg, node, fields) ==
    IF node.kind = "Simple"
    THEN [NoOut EXCEPT !.op = "struct", !.names = fields,
                       !.err = Some(UnsupportedValue)]
    ELSE [NoOut EXCEPT !.op = "struct", !.names = fields,
                       !.entries = MapEntries(
                           MaybeCoerceCase(cfg, node.values, fields))]

\* an enum request that coerces a Simple's string against the variants too
EnumOutCoerceLeaf(cfg, node, variants) ==
    IF node.kind = "Simple"
    THEN [NoOut EXCEPT !.op = "enum", !.names = variants,
                       !.leaf = Some(CoerceItem(cfg, node.val, variants))]
    ELSE [NoOut EXCEPT !.op = "enum", !.names = variants,
                       !.entries = MapEntries(
                           MaybeCoerceCase(cfg, node.values, variants))]

\* what Parser::deserialize_enum hands to serde: a Simple gives its string
\* to the string deserializer, a Map gives its coerced entries to a
\* MapAccessDeserializer
EnumOut(cfg, node, variants) ==
    IF node.kind = "Simple"
    THEN [NoOut EXCEPT !.op = "enum", !.names = variants,
                       !.leaf = Some(node.val)]
    ELSE [NoOut EXCEPT !.op = "enum", !.names = variants,
                       !.entries = MapEntries(
                           MaybeCoerceCase(cfg, node.values, variants))]

\* visitor.visit_enum on what deserialize_enum built: the string
\* deserializer names the variant by its string and has no payload; the
\* MapAccessDeserializer takes the first key as the variant and the first
\* value as the payload, and reads no further entry
VisitEnum(o) ==
    IF o.leaf # None
    THEN [variant |-> o.leaf, payload |-> None]
    ELSE IF o.entries # <<>>
    THEN [variant |-> o.entries[1].key, payload |-> Some(o.entries[1].node)]
    ELSE [variant |-> None, payload |-> None]

\* a non-empty run of ASCII digits
IsDigits(s) == Len(s) > 0 /\ \A i \in 1..Len(s) : IsAsciiDigit(s[i])

\* the value of a digit run of at most four digits, 1000 for a longer one
\* (beyond every 8-bit range)
DigitsValue(s) ==
    LET c == Canonical(s)
        d(i) == IndexOf(Digits, c[i]) - 1
    IN  IF Len(c) > 3 THEN 1000
        ELSE IF Len(c) = 3 THEN 100 * d(1) + 10 * d(2) + d(3)
        ELSE IF Len(c) = 2 THEN 10 * d(1) + d(2)
        ELSE d(1)

\* f64::from_str: sign, then inf / infinity / nan in any letter case, or a
\* decimal with digits on at least one side of an optional point and an
\* optional exponent
ParsesAsFloat(s) ==
    LET body == IF Len(s) > 0 /\ s[1] \in {"+", "-"} THEN Tail(s) ELSE s
        Decimal(m) ==
            \E k \in 0..Len(m) :
                LET int  == SubSeq(m, 1, k)
                    rest == SubSeq(m, k + 1, Len(m))
                    frac == IF rest = <<>> THEN <<>> ELSE Tail(rest)
                IN  /\ \A i \in 1..Len(int) : IsAsciiDigit(int[i])
                    /\ rest = <<>> \/ rest[1] = "."
                    /\ \A i \in 1..Len(frac) : IsAsciiDigit(frac[i])
                    /\ Len(int) + Len(frac) > 0
        Exponent(e) ==
            /\ Len(e) > 1
            /\ e[1] \in {"e", "E"}
            /\ IsDigits(IF e[2] \in {"+", "-"} THEN SubSeq(e, 3, Len(e)) ELSE Tail(e))
    IN  \/ MakeAsciiLowercase(body) \in
              { <<"i", "n", "f">>, <<"n", "a", "n">>,
                <<"i", "n", "f", "i", "n", "i", "t", "y">> }
        \/ \E k \in 0..Len(body) :
              /\ Decimal(SubSeq(body, 1, k))
              /\ k = Len(body) \/ Exponent(SubSeq(body, k + 1, Len(body)))

\* val.parse::<$ty>() succeeds
ParsesAs(ty, val) ==
    CASE ty = "bool" -> val \in { <<"t", "r", "u", "e">>, <<"f", "a", "l", "s", "e">> }
      [] ty = "u8"   -> LET run == IF Len(val) > 0 /\ val[1] = "+" THEN Tail(val) ELSE val
                        IN  IsDigits(run) /\ DigitsValue(run) <= 255
      [] ty = "i8"   -> LET run == IF Len(val) > 0 /\ val[1] \in {"+", "-"}
                                   THEN Tail(val) ELSE val
                            max == IF Len(val) > 0 /\ val[1] = "-" THEN 128 ELSE 127
                        IN  IsDigits(run) /\ DigitsValue(run) <= max
      [] ty = "f64"  -> ParsesAsFloat(val)

\* what a deserialize_<ty> of forward_to_deserializer! hands to serde: a
\* Simple that parses reaches the visitor as that primitive
PrimitiveOut(node, ty) ==
    IF node.kind = "Simple"
    THEN IF ParsesAs(ty, node.val)
         THEN [NoOut EXCEPT !.op = ty, !.leaf = Some(node.val)]
         ELSE [NoOut EXCEPT !.op = ty,
                            !.err = Some(GenericDeserialization(node.val))]
    ELSE [NoOut EXCEPT !.op = ty, !.err = Some(InvalidNestedValues)]

\* what Parser::deserialize_any hands to serde, also for the char, str,
\* string, bytes and identifier requests forwarded to it: a Simple gives
\* its string to the string deserializer, a Map goes to deserialize_map
AnyOut(node) ==
    IF node.kind = "Simple"
    THEN [NoOut EXCEPT !.op = "any", !.leaf = Some(node.val)]
    ELSE [MapOut(node) EXCEPT !.op = "any"]

---------------------------------------------------------------------------
(* State                                                                   *)
(*   config   the Config being set up, then borrowed by the build          *)
(*   pc       "config": the Config is being set up; "build": inside the    *)
(*            loop of create_parser; "failed": build_from_iter returned    *)
(*            Err; "decode": T::deserialize(parser) is running             *)
(*   input    the raw pairs the iterator has yielded so far (history)      *)
(*   base     create_parser's `base`                                       *)
(*   err      the error build_from_iter returns, if any                    *)
(*   current  Parser::current of the Parser serde is deserializing         *)
(*   cursor   child indices leading from the root to `current` (history)   *)
(*   out      what the last deserialize_* call on `current` handed to      *)
(*            serde                                                        *)

Init ==
    /\ config = ConfigNew
    /\ pc = "config"
    /\ input = <<>>
    /\ base = Map(<<>>)
    /\ err = None
    /\ current = Map(<<>>)
    /\ cursor = <<>>
    /\ out = NoOut

\* Config::with_separator
WithSeparator(separator) ==
    /\ pc = "config"
    /\ config' = [config EXCEPT !.separator = separator]
    /\ UNCHANGED <<pc, input, base, err, current, cursor, out>>

\* Config::with_prefix
WithPrefix(prefix) ==
    /\ pc = "config"
    /\ config' = [config EXCEPT !.prefix = Some(prefix)]
    /\ UNCHANGED <<pc, input, base, err, current, cursor, out>>

\* Config::without_prefix
WithoutPrefix ==
    /\ pc = "config"
    /\ config' = [config EXCEPT !.prefix = None]
    /\ UNCHANGED <<pc, input, base, err, current, cursor, out>>

\* Config::case_sensitive
CaseSensitive(case_sensitive) ==
    /\ pc = "config"
    /\ config' = [config EXCEPT !.case_sensitive = case_sensitive]
    /\ UNCHANGED <<pc, input, base, err, current, cursor, out>>

\* Config::ordered_arrays
OrderedArrays(ordered_arrays) ==
    /\ pc = "config"
    /\ config' = [config EXCEPT !.ordered_arrays = ordered_arrays]
    /\ UNCHANGED <<pc, input, base, err, current, cursor, out>>

\* build_from_iter pulls one more pair from the iterator: the filter_map
\* closure, then one turn of create_parser's loop; `?` returns the error
BuildFromIterNext(keys, values) ==
    /\ pc \in {"config", "build"}
    /\ Len(input) < MaxPairs
    /\ \E key \in keys, value \in values :
          LET r == BuildStep(config, base, key, value)
          IN  /\ input' = Append(input, [key |-> key, value |-> value])
              /\ base' = r.tree
              /\ err' = r.err
              /\ pc' = IF r.err = None THEN "build" ELSE "failed"
    /\ UNCHANGED <<config, current, cursor, out>>

\* the iterator is exhausted: create_parser returns Ok(Parser) and
\* build_from_iter hands it to T::deserialize
BuildFromIterDone ==
    /\ pc \in {"config", "build"}
    /\ pc' = "decode"
    /\ current' = base
    /\ cursor' = <<>>
    /\ out' = NoOut
    /\ UNCHANGED <<config, input, base, err>>

\* Parser::deserialize_seq
DeserializeSeq ==
    /\ pc = "decode"
    /\ out = NoOut
    /\ out' = SeqOut(config, current)
    /\ UNCHANGED <<config, pc, input, base, err, current, cursor>>

\* Parser::deserialize_map
DeserializeMap ==
    /\ pc = "decode"
    /\ out = NoOut
    /\ out' = MapOut(current)
    /\ UNCHANGED <<config, pc, input, base, err, current, cursor>>

\* Parser::deserialize_struct
DeserializeStruct(fields) ==
    /\ pc = "decode"
    /\ out = NoOut
    /\ out' = StructOut(config, current, fields)
    /\ UNCHANGED <<config, pc, input, base, err, current, cursor>>

\* Parser::deserialize_enum
DeserializeEnum(variants) ==
    /\ pc = "decode"
    /\ out = NoOut
    /\ out' = EnumOut(config, current, variants)
    /\ UNCHANGED <<config, pc, input, base, err, current, cursor>>

\* deserialize_u8 .. deserialize_bool of forward_to_deserializer!
DeserializePrimitive(ty) ==
    /\ pc = "decode"
    /\ out = NoOut
    /\ out' = PrimitiveOut(current, ty)
    /\ UNCHANGED <<config, pc, input, base, err, current, cursor>>

\* Parser::deserialize_any, reached directly or through
\* forward_to_deserialize_any!
DeserializeAny ==
    /\ pc = "decode"
    /\ out = NoOut
    /\ out' = AnyOut(current)
    /\ UNCHANGED <<config, pc, input, base, err, current, cursor>>

\* serde's visitor deserializes the i-th item it was handed: the child
\* Parser { current: value, config } becomes the Parser at work
Descend(i) ==
    /\ pc = "decode"
    /\ i \in 1..Len(out.entries)
    /\ current' = out.entries[i].node
    /\ cursor' = IF out.entries[i].idx = 0
                 THEN cursor
                 ELSE Append(cursor, out.entries[i].idx)
    /\ out' = NoOut
    /\ UNCHANGED <<config, pc, input, base, err>>

\* tree construction: Config::create_parser under a separator and a case mode
NextTree ==
    \/ \E separator \in Separators : WithSeparator(separator)
    \/ \E case_sensitive \in BOOLEAN : CaseSensitive(case_sensitive)
    \/ BuildFromIterNext(TreeKeys, TreeValues)
    \/ BuildFromIterDone

SpecTree == Init /\ [][NextTree]_vars

\* sequences: the root Map decoded with deserialize_seq
NextSeq ==
    \/ \E ordered_arrays \in BOOLEAN : OrderedArrays(ordered_arrays)
    \/ BuildFromIterNext(SeqKeys, SeqValues)
    \/ BuildFromIterDone
    \/ DeserializeSeq

SpecSeq == Init /\ [][NextSeq]_vars

\* prefixes: builds with and without a prefix, in both case modes
NextPrefix ==
    \/ \E prefix \in Prefixes : WithPrefix(prefix)
    \/ WithoutPrefix
    \/ \E case_sensitive \in BOOLEAN : CaseSensitive(case_sensitive)
    \/ BuildFromIterNext(PrefixKeys, TreeValues)
    \/ BuildFromIterDone

SpecPrefix == Init /\ [][NextPrefix]_vars

\* separators with letters: builds under "X" and "x", with and without a
\* prefix, in both case modes
NextCaseSeparator ==
    \/ \E separator \in CaseSeparators : WithSeparator(separator)
    \/ \E prefix \in Prefixes : WithPrefix(prefix)
    \/ \E case_sensitive \in BOOLEAN : CaseSensitive(case_sensitive)
    \/ BuildFromIterNext(CaseSeparatorKeys, TreeValues)
    \/ BuildFromIterDone

SpecCaseSeparator == Init /\ [][NextCaseSeparator]_vars

\* case handling: a prefixed, case-insensitive or case-sensitive build
\* decoded against structs and enums
NextCase ==
    \/ \E prefix \in Prefixes : WithPrefix(prefix)
    \/ \E case_sensitive \in BOOLEAN : CaseSensitive(case_sensitive)
    \/ BuildFromIterNext(CaseKeys, CaseValues)
    \/ BuildFromIterDone
    \/ \E fields \in Schemas : DeserializeStruct(fields)
    \/ \E variants \in Schemas : DeserializeEnum(variants)
    \/ \E i \in 1..Len(out.entries) : Descend(i)

SpecCase == Init /\ [][NextCase]_vars

\* scalars and shapes: every kind of request on every node of a build
NextShape ==
    \/ BuildFromIterNext(ShapeKeys, ShapeValues)
    \/ BuildFromIterDone
    \/ \E ty \in PrimitiveTypes : DeserializePrimitive(ty)
    \/ DeserializeAny
    \/ DeserializeMap
    \/ \E fields \in Schemas : DeserializeStruct(fields)
    \/ \E variants \in Schemas : DeserializeEnum(variants)
    \/ \E i \in 1..Len(out.entries) : Descend(i)

SpecShape == Init /\ [][NextShape]_vars

\* build_from_iter under every Config setter, decoded with the composite requests
Next ==
    \/ \E separator \in Separators : WithSeparator(separator)
    \/ \E prefix \in Prefixes : WithPrefix(prefix)
    \/ WithoutPrefix
    \/ \E case_sensitive \in BOOLEAN : CaseSensitive(case_sensitive)
    \/ \E ordered_arrays \in BOOLEAN : OrderedArrays(ordered_arrays)
    \/ BuildFromIterNext(CaseKeys, CaseValues)
    \/ BuildFromIterDone
    \/ DeserializeSeq
    \/ DeserializeMap
    \/ \E fields \in Schemas : DeserializeStruct(fields)
    \/ \E variants \in Schemas : DeserializeEnum(variants)
    \/ \E i \in 1..Len(out.entries) : Descend(i)

Spec == Init /\ [][Next]_vars

---------------------------------------------------------------------------
(* Vocabulary of the properties                                            *)

RECURSIVE Kept(_, _)
\* the pairs of `pairs` that build_from_iter retains, as create_parser
\* receives them, in order
Kept(cfg, pairs) ==
    IF pairs = <<>>
    THEN <<>>
    ELSE LET item == FilterMap(cfg, pairs[Len(pairs)].key, pairs[Len(pairs)].value)
         IN  Kept(cfg, SubSeq(pairs, 1, Len(pairs) - 1)) \o item

\* each retained pair with its segment path
Rows(cfg, pairs) ==
    LET kept == Kept(cfg, pairs)
    IN  [i \in 1..Len(kept) |->
            [key |-> kept[i].key, path |-> Split(kept[i].key, cfg.separator),
             value |-> kept[i].value]]

ProperPrefix(p, q) == Len(p) < Len(q) /\ SubSeq(q, 1, Len(p)) = p

RECURSIVE Nodes(_)
\* a node and all its descendants
Nodes(node) ==
    {node} \cup UNION { Nodes(node.values[i][2]) : i \in 1..Len(node.values) }

MapNodes(node) == { n \in Nodes(node) : n.kind = "Map" }

RECURSIVE LeafCount(_)
LeafCount(node) ==
    IF node.kind = "Simple"
    THEN 1
    ELSE LET Sum[i \in 0..Len(node.values)] ==
                 IF i = 0 THEN 0 ELSE Sum[i - 1] + LeafCount(node.values[i][2])
         IN  Sum[Len(node.values)]

RECURSIVE Follow(_, _)
\* the node reached from `node` along `path`, taking at each Map the first
\* child named by the segment; None when there is no such child
Follow(node, path) ==
    IF path = <<>>
    THEN Some(node)
    ELSE LET named == { i \in 1..Len(node.values) : node.values[i][1] = path[1] }
         IN  IF named = {}
             THEN None
             ELSE Follow(node.values[Least(named)][2], Tail(path))

RECURSIVE Trie(_)
\* the path trie a list of rows implies: one child per distinct first
\* segment, in first-seen order; a row that ends there is the leaf
Trie(rows) ==
    LET firsts == { i \in 1..Len(rows) :
                      \A j \in 1..(i - 1) : rows[j].path[1] # rows[i].path[1] }
        Nth(k) == CHOOSE i \in firsts : Cardinality({ j \in firsts : j < i }) = k - 1
        Under(seg) == SelectSeq(rows, LAMBDA r : r.path[1] = seg)
        Child(seg) ==
            LET sub == Under(seg)
                ends == { k \in 1..Len(sub) : Len(sub[k].path) = 1 }
            IN  IF ends # {}
                THEN sub[Least(ends)].value
                ELSE Trie([k \in 1..Len(sub) |-> [sub[k] EXCEPT !.path = Tail(@)]])
    IN  Map([k \in 1..Cardinality(firsts) |->
                <<rows[Nth(k)].path[1], Child(rows[Nth(k)].path[1])>>])

\* keys pairwise distinct, no path a proper prefix of another
NoCollision(rows) ==
    \A i, j \in 1..Len(rows) :
        i # j => /\ rows[i].key # rows[j].key
                 /\ ~ProperPrefix(rows[i].path, rows[j].path)

---------------------------------------------------------------------------
(* Properties of tree construction, under SpecTree                         *)

\* C1: for pairwise distinct keys with no path a proper prefix of another,
\* create_parser succeeds, every key's path leads from the root to a Simple
\* leaf holding that pair's value, there are no other leaves, and the
\* tree is the path trie with children in first-seen order.
C1_TreeMirrorsTrie ==
    LET rows == Rows(config, input)
    IN  NoCollision(rows) =>
            /\ pc # "failed"
            /\ err = None
            /\ \A i \in 1..Len(rows) : Follow(base, rows[i].path) = Some(rows[i].value)
            /\ LeafCount(base) = Len(rows)
            /\ base = Trie(rows)

\* C1 witness: a finished build of three non-colliding keys with a nested
\* Map of two children beside a root leaf
C1_Witness ==
    /\ pc = "decode"
    /\ Len(Rows(config, input)) = 3
    /\ NoCollision(Rows(config, input))
    /\ \E i, j \in 1..Len(base.values) :
          /\ base.values[i][2].kind = "Map"
          /\ Len(base.values[i][2].values) = 2
          /\ base.values[j][2].kind = "Simple"

\* C2 (as stated): once a key with path p is a Simple leaf, inserting a later
\* key whose path has p as a proper prefix fails with InvalidEnvNesting,
\* leaves the tree as it was, and reports the later key's path from the
\* segment that names the leaf.
C2_DeeperPathFails ==
    [][ \A n \in 1..MaxPairs :
          ( /\ pc \in {"config", "build"}
            /\ Len(input) = n - 1
            /\ Len(input') = n
            /\ FilterMap(config, input'[n].key, input'[n].value) # None
            /\ LET rows == Rows(config, input)
                   path == Rows(config, input')[Len(Rows(config, input'))].path
               IN  \E i \in 1..Len(rows) : ProperPrefix(rows[i].path, path) )
          => LET rows == Rows(config, input)
                 path == Rows(config, input')[Len(Rows(config, input'))].path
             IN  /\ pc' = "failed"
                 /\ base' = base
                 /\ \E i \in 1..Len(rows) :
                       /\ ProperPrefix(rows[i].path, path)
                       /\ err' = Some(InvalidEnvNesting(
                              SubSeq(path, Len(rows[i].path), Len(path)))) ]_vars

\* C3 (as stated): when the input holds two keys, one's path a proper
\* prefix of the other's, construction fails with InvalidEnvNesting
\* whichever comes first.
C3_CollisionFailsInAnyOrder ==
    LET rows == Rows(config, input)
    IN  (\E i, j \in 1..Len(rows) : ProperPrefix(rows[i].path, rows[j].path))
            => /\ pc = "failed"
               /\ err # None
               /\ err[1].kind = "InvalidEnvNesting"

\* C4 (as stated): the children keys of every Map node are pairwise distinct.
C4_ChildKeysDistinct ==
    \A m \in MapNodes(base) :
        \A i, j \in 1..Len(m.values) : i # j => m.values[i][1] # m.values[j][1]

\* C4 (amended): in every Map node a Map-valued child never shares its key
\* with an earlier child; only Simple leaves, appended without lookup,
\* repeat a key.
C4_MapChildKeysDistinct ==
    \A m \in MapNodes(base) :
        \A i, j \in 1..Len(m.values) :
            (i < j /\ m.values[j][2].kind = "Map") => m.values[i][1] # m.values[j][1]

\* C4 witness: a finished build whose root holds a Map child reused by two
\* nested keys and a leaf that repeats that child's key
C4_Witness ==
    /\ pc = "decode"
    /\ \E i, j \in 1..Len(base.values) :
          /\ i < j
          /\ base.values[i][1] = base.values[j][1]
          /\ base.values[i][2].kind = "Map"
          /\ Len(base.values[i][2].values) = 2
          /\ base.values[j][2].kind = "Simple"

---------------------------------------------------------------------------
(* Properties of sequence decoding, under SpecSeq                          *)

\* the key of the child an emitted element came from
ChildKey(e) == current.values[e.idx][1]

\* the order the ordering policy states: a key without a leading digit run
\* before every key with one, digit runs by their numeric value, equal
\* runs by the suffix
OrderedBefore(k, l) ==
    LET dk == DigitRun(k)
        dl == DigitRun(l)
        nk == Canonical(SubSeq(k, 1, dk))
        nl == Canonical(SubSeq(l, 1, dl))
    IN  \/ dk = 0 /\ dl > 0
        \/ dk > 0 /\ dl > 0 /\ UsizeLess(nk, nl)
        \/ /\ (dk = 0) = (dl = 0)
           /\ (dk = 0 \/ nk = nl)
           /\ StrLess(SubSeq(k, dk + 1, Len(k)), SubSeq(l, dl + 1, Len(l)))

\* C5 (as stated): with array ordering on, the elements of a Map decoded as
\* a sequence come in ascending order of (numeric prefix, suffix) of their
\* child keys: no prefix first, prefixes numerically, then by suffix.
C5_SeqAscendingByToken ==
    (pc = "decode" /\ out.op = "seq" /\ current.kind = "Map"
        /\ config.ordered_arrays)
    => \A i, j \in 1..Len(out.entries) :
          i < j => ~OrderedBefore(ChildKey(out.entries[j]), ChildKey(out.entries[i]))

\* C6 (as stated): with array ordering off, a Map decoded as a sequence
\* emits its children in insertion order, the order in which the keys were
\* read, not in sorted key order.  (How many elements come out is C7.)
C6_SeqInsertionOrder ==
    (pc = "decode" /\ out.op = "seq" /\ current.kind = "Map"
        /\ ~config.ordered_arrays)
    => \A i, j \in 1..Len(out.entries) :
          i < j => out.entries[i].idx < out.entries[j].idx

\* C7 (as stated): a Map of n children decoded as a sequence yields n
\* elements, each child exactly once.
C7_SeqOneElementPerChild ==
    (pc = "decode" /\ out.op = "seq" /\ current.kind = "Map")
    => /\ Len(out.entries) = Len(current.values)
       /\ \A c \in 1..Len(current.values) :
             Cardinality({ i \in 1..Len(out.entries) : out.entries[i].idx = c }) = 1

---------------------------------------------------------------------------
(* Properties of case handling, under SpecCase and Spec                     *)

RECURSIVE NodeAt(_, _)
\* the node child indices `path` lead to from `node`, None if they lead
\* nowhere
NodeAt(node, path) ==
    IF path = <<>>
    THEN Some(node)
    ELSE IF node.kind = "Map" /\ path[1] \in 1..Len(node.values)
         THEN NodeAt(node.values[path[1]][2], Tail(path))
         ELSE None

\* the call `op` of the deserializer on `node`, with the expected names
DecodeAs(cfg, node, op, names) ==
    CASE op = "seq"    -> SeqOut(cfg, node)
      [] op = "map"    -> MapOut(node)
      [] op = "struct" -> StructOut(cfg, node, names)
      [] op = "enum"   -> EnumOut(cfg, node, names)
      [] OTHER         -> NoOut

\* the keys of the universe that differ from `key` only in ASCII letter case
KeyVariants(key) ==
    { k \in CaseKeys : MakeAsciiLowercase(k) = MakeAsciiLowercase(key) }

RECURSIVE CaseVariants(_)
\* the pair sequences over the same key universe that differ from `pairs`
\* only in the ASCII letter case of their keys
CaseVariants(pairs) ==
    IF pairs = <<>>
    THEN { <<>> }
    ELSE LET last == pairs[Len(pairs)]
         IN  { Append(v, [key |-> k, value |-> last.value]) :
                 v \in CaseVariants(SubSeq(pairs, 1, Len(pairs) - 1)),
                 k \in KeyVariants(last.key) }

\* C8: with case-sensitivity off, every input that differs from the one
\* read only in the letter case of its keys builds with the same error or
\* success and, at every nesting level and for every deserializer call on
\* it, hands serde the same keys, nodes and leaf as the input read.
C8_CaseVariantsDecodeAlike ==
    ~config.case_sensitive =>
        \A v \in CaseVariants(input) :
            LET r == BuildFromIter(config, v)
            IN  /\ r.err = err
                /\ pc = "decode" =>
                      LET node == NodeAt(r.tree, cursor)
                      IN  /\ node # None
                          /\ DecodeAs(config, node[1], out.op, out.names) = out

\* C8 witness: case-insensitive, a struct decoded one level down whose key
\* was presented as an expected name, from an input that had an uppercase
\* letter in a key and has a differently cased variant
C8_Witness ==
    /\ ~config.case_sensitive
    /\ pc = "decode"
    /\ Len(cursor) = 1
    /\ out.op = "struct"
    /\ \E i \in 1..Len(out.entries) :
          /\ Occurs(out.names, out.entries[i].key[1])
          /\ out.entries[i].key[1] # current.values[i][1]
    /\ \E i \in 1..Len(input) : MakeAsciiLowercase(input[i].key) # input[i].key
    /\ CaseVariants(input) # {input}

\* C9: maybe_coerce_case on a Map's children keeps their number, order and
\* nodes; with case-sensitivity on every key is unchanged; with it off a key
\* equal, ignoring ASCII case, to some expected name becomes the first such
\* name of the list, and every other key is unchanged.
C9_CoerceFirstMatch ==
    (pc = "decode" /\ out.op \in {"struct", "enum"} /\ current.kind = "Map")
    => /\ Len(out.entries) = Len(current.values)
       /\ \A i \in 1..Len(out.entries) :
             LET orig == current.values[i][1]
                 key  == out.entries[i].key[1]
                 SameLetters(n) ==
                     MakeAsciiLowercase(out.names[n]) = MakeAsciiLowercase(orig)
             IN  /\ out.entries[i].node = current.values[i][2]
                 /\ out.entries[i].idx = i
                 /\ config.case_sensitive => key = orig
                 /\ ~config.case_sensitive =>
                       \/ /\ \A n \in 1..Len(out.names) : ~SameLetters(n)
                          /\ key = orig
                       \/ \E n \in 1..Len(out.names) :
                             /\ SameLetters(n)
                             /\ \A m \in 1..(n - 1) : ~SameLetters(m)
                             /\ key = out.names[n]

\* C9 witness: case-insensitive, a Map decoded as a struct with one key that
\* two expected names match and that was replaced by the first, and another
\* key no expected name matches
C9_Witness ==
    /\ pc = "decode"
    /\ ~config.case_sensitive
    /\ out.op = "struct"
    /\ current.kind = "Map"
    /\ \E i, j \in 1..Len(out.entries) :
          /\ Cardinality({ n \in 1..Len(out.names) :
                 EqIgnoreAsciiCase(out.names[n], current.values[i][1]) }) = 2
          /\ out.entries[i].key[1] # current.values[i][1]
          /\ \A n \in 1..Len(out.names) :
                ~EqIgnoreAsciiCase(out.names[n], current.values[j][1])
          /\ out.entries[j].key[1] = current.values[j][1]

\* C10 (as stated): the keys a Map node decoded as a map delivers are the
\* same with case-sensitivity off as with it on: the build of the same
\* input with case-sensitivity on has a Map at the same place, and it
\* delivers the same keys in the same order.
C10_MapKeysUntouchedByCase ==
    (pc = "decode" /\ out.op = "map" /\ current.kind = "Map"
        /\ ~config.case_sensitive)
    => LET r == BuildFromIter([config EXCEPT !.case_sensitive = TRUE], input)
           node == NodeAt(r.tree, cursor)
       IN  /\ r.err = None
           /\ node # None
           /\ node[1].kind = "Map"
           /\ [i \in 1..Len(out.entries) |-> out.entries[i].key]
                 = [i \in 1..Len(node[1].values) |-> Some(node[1].values[i][1])]

---------------------------------------------------------------------------
(* Separator, prefix and error properties, under SpecTree and Spec         *)

RECURSIVE Join(_, _)
\* the key whose segments are `path`, joined with `sep`
Join(path, sep) ==
    IF Len(path) = 1
    THEN path[1]
    ELSE path[1] \o sep \o Join(Tail(path), sep)

\* the (segment path, value) entries of the input read, under the
\* separator configured
Entries ==
    [i \in 1..Len(input) |->
        [path  |-> Split(CoerceKey(config, input[i].key), config.separator),
         value |-> input[i].value]]

\* the entries re-keyed with separator `sep`
Rekeyed(entries, sep) ==
    [i \in 1..Len(entries) |->
        [key |-> Join(entries[i].path, sep), value |-> entries[i].value]]

\* no segment of any entry contains any of the separators
SegmentsFreeOfSeparators(entries) ==
    \A i \in 1..Len(entries) : \A k \in 1..Len(entries[i].path) :
        \A sep \in Separators : Matches(entries[i].path[k], sep) = {}

\* joining an entry's path with `sep` and splitting the key again gives the
\* path back
JoinSplitsBack(entries, sep) ==
    \A i \in 1..Len(entries) : Split(Join(entries[i].path, sep), sep) = entries[i].path

\* the outcome of building the re-keyed entries under `sep` is the outcome
\* of the build at hand
SameOutcomeUnder(entries, sep) ==
    BuildFromIter([config EXCEPT !.separator = sep], Rekeyed(entries, sep))
        = [tree |-> base, err |-> err]

\* C11 (as stated): for entries whose segments contain neither separator,
\* the keys joined with one separator and built under it give the same tree
\* or the same error as the keys joined with the other and built under that.
C11_SeparatorIndependent ==
    LET entries == [i \in 1..Len(input) |-> Entries[i]]
    IN  SegmentsFreeOfSeparators(entries) =>
            \A sep \in Separators : SameOutcomeUnder(entries, sep)

\* C11 (amended): the same, for the separators under which every joined key
\* splits back into its path (a segment that ends or begins with part of a
\* separator can complete one across the join).
C11_SeparatorIndependentWhenSplitBack ==
    LET entries == [i \in 1..Len(input) |-> Entries[i]]
    IN  SegmentsFreeOfSeparators(entries) =>
            \A sep \in Separators :
                JoinSplitsBack(entries, sep) => SameOutcomeUnder(entries, sep)

\* C11 witness: a finished build under "__" of three entries, one three
\* segments deep, whose segments hold no separator
C11_Witness ==
    /\ pc = "decode"
    /\ config.separator = <<"_", "_">>
    /\ Len(input) = 3
    /\ SegmentsFreeOfSeparators(Entries)
    /\ \E i \in 1..Len(Entries) : Len(Entries[i].path) = 3
    /\ \A sep \in Separators : JoinSplitsBack(Entries, sep)

\* whether `key` carries the configured prefix: both lowercased first when
\* case-sensitivity is off, compared exactly when it is on
HasPrefix(key) ==
    LET P == config.prefix[1]
    IN  IF config.case_sensitive
        THEN Len(key) >= Len(P) /\ \A k \in 1..Len(P) : key[k] = P[k]
        ELSE /\ Len(key) >= Len(P)
             /\ \A k \in 1..Len(P) : ToAsciiLowercase(key[k]) = ToAsciiLowercase(P[k])

\* the pairs of the input that carry the prefix, each with the prefix
\* removed, in the same relative order
Unprefixed ==
    LET carrying == SelectSeq(input, LAMBDA pair : HasPrefix(pair.key))
    IN  [i \in 1..Len(carrying) |->
            [key   |-> SubSeq(carrying[i].key, Len(config.prefix[1]) + 1,
                              Len(carrying[i].key)),
             value |-> carrying[i].value]]

\* C12: with a prefix configured, the build's outcome is the outcome of the
\* build without prefix of the pairs that carry the prefix, prefix removed,
\* in order; a pair lacking the prefix adds no node and raises no error.
C12_PrefixSelectsAndStrips ==
    config.prefix # None =>
        BuildFromIter([config EXCEPT !.prefix = None], Unprefixed)
            = [tree |-> base, err |-> err]

\* C12 witness: a finished case-insensitive build with a prefix, one pair
\* lacking the prefix, one carrying it in another letter case, and a
\* nested key below it
C12_Witness ==
    /\ pc = "decode"
    /\ config.prefix # None
    /\ ~config.case_sensitive
    /\ Len(input) = 3
    /\ Len(Unprefixed) = 2
    /\ \E i \in 1..Len(input) :
          HasPrefix(input[i].key) /\ ~StartsWith(input[i].key, config.prefix[1])
    /\ \E i \in 1..Len(base.values) : base.values[i][2].kind = "Map"

---------------------------------------------------------------------------
(* Properties of scalar and shape requests, under SpecShape                *)

\* the last request produced nothing but the error `e`
FailedWith(e) ==
    /\ out.err = Some(e)
    /\ out.leaf = None
    /\ out.entries = <<>>

\* C13: an integer, float or boolean request on a Map node fails with
\* InvalidNestedValues, a map or struct request on a Simple leaf fails with
\* UnsupportedValue, and neither produces a value.
C13_ShapeMismatchFails ==
    pc = "decode" =>
        /\ (out.op \in PrimitiveTypes /\ current.kind = "Map")
              => FailedWith(InvalidNestedValues)
        /\ (out.op \in {"map", "struct"} /\ current.kind = "Simple")
              => FailedWith(UnsupportedValue)

\* C13 witness: a float requested on a Map one level below the root
C13_Witness ==
    /\ pc = "decode"
    /\ Len(cursor) = 1
    /\ current.kind = "Map"
    /\ out.op = "f64"
    /\ out.err = Some(InvalidNestedValues)

\* C14 (as stated): a string, bytes, char or identifier request on a Map
\* node fails with InvalidNestedValues, like a primitive request; on a
\* Simple leaf the string decoder gets the raw value unchanged.
C14_StringRequestOnMapFails ==
    (pc = "decode" /\ out.op = "any") =>
        IF current.kind = "Map"
        THEN FailedWith(InvalidNestedValues)
        ELSE out.leaf = Some(current.val) /\ out.err = None /\ out.entries = <<>>

---------------------------------------------------------------------------
(* Properties of failing builds and stored keys                            *)

\* the proper prefixes of `path` that lead, in `tree`, to a Simple leaf
LeafPrefixes(tree, path) ==
    { k \in 1..(Len(path) - 1) :
        LET at == Follow(tree, SubSeq(path, 1, k))
        IN  at # None /\ at[1].kind = "Simple" }

\* the tree built from the first k pairs of the input
TreeOf(k) == BuildFromIter(config, SubSeq(input, 1, k)).tree

\* the segment path of the n-th pair of the input, empty for a pair that
\* is discarded
PathOf(n) ==
    LET item == FilterMap(config, input[n].key, input[n].value)
    IN  IF item = None THEN <<>> ELSE Split(item[1].key, config.separator)

\* the pairs of the input whose insertion conflicts with the tree built
\* from the pairs before them
Conflicting ==
    { n \in 1..Len(input) : LeafPrefixes(TreeOf(n - 1), PathOf(n)) # {} }

\* C15: a build fails exactly when some pair conflicts with the tree of the
\* pairs before it; the error is the one of the earliest such pair, no pair
\* after it is read, and nothing is decoded.
C15_FirstConflictReported ==
    LET conflicting == Conflicting
    IN  /\ pc = "failed" <=> conflicting # {}
        /\ pc # "failed" => err = None
        /\ pc = "failed" =>
              LET n    == Least(conflicting)
                  path == PathOf(n)
                  k    == Least(LeafPrefixes(TreeOf(n - 1), path))
              IN  /\ Len(input) = n
                  /\ err = Some(InvalidEnvNesting(SubSeq(path, k, Len(path))))
                  /\ current = Map(<<>>)
                  /\ cursor = <<>>
                  /\ out = NoOut

\* C15 witness: a build that failed at its third pair, two levels down
C15_Witness ==
    /\ pc = "failed"
    /\ Len(input) = 3
    /\ err # None
    /\ Len(err[1].path) = 2
    /\ Len(Rows(config, input)[3].path) = 3

\* C16: with case-sensitivity off, no key stored in any Map node of the
\* tree holds an ASCII uppercase letter, whatever the prefix and separator.
C16_StoredKeysLowercase ==
    ~config.case_sensitive =>
        \A m \in MapNodes(base) : \A i \in 1..Len(m.values) :
            \A k \in 1..Len(m.values[i][1]) : ~Occurs(Uppercase, m.values[i][1][k])

\* C16 witness: a finished case-insensitive build of keys with uppercase
\* letters in a first and in a later segment, holding a nested Map
C16_Witness ==
    /\ pc = "decode"
    /\ ~config.case_sensitive
    /\ \E i, j \in 1..Len(input) :
          /\ Occurs(Uppercase, input[i].key[1])
          /\ Occurs(Uppercase, input[j].key[Len(input[j].key)])
          /\ Len(input[j].key) > 1
    /\ \E i \in 1..Len(base.values) :
          /\ base.values[i][2].kind = "Map"
          /\ Len(base.values[i][2].values) > 0

---------------------------------------------------------------------------
(* Properties of enum decoding, under Spec                                 *)

\* C17: an enum request on a Simple selects the variant named by the raw
\* string, verbatim in both case modes; on a Map it selects the first
\* child's key, coerced against the variant list when case-sensitivity is
\* off, with that child's node as payload, whatever children follow.
C17_EnumVariantSelection ==
    (pc = "decode" /\ out.op = "enum") =>
        LET sel == VisitEnum(out)
        IN  IF current.kind = "Simple"
            THEN sel = [variant |-> Some(current.val), payload |-> None]
            ELSE current.values # <<>> =>
                   LET first == current.values[1]
                       SameLetters(n) ==
                           MakeAsciiLowercase(out.names[n]) = MakeAsciiLowercase(first[1])
                       named == { n \in 1..Len(out.names) : SameLetters(n) }
                   IN  /\ sel.payload = Some(first[2])
                       /\ sel.variant =
                             IF config.case_sensitive \/ named = {}
                             THEN Some(first[1])
                             ELSE Some(out.names[Least(named)])
                       /\ sel = VisitEnum(EnumOut(config, Map(<<first>>), out.names))

\* C17 witness: case-insensitive, a Map of two differently keyed children
\* decoded as an enum, the first key replaced by a variant name
C17_Witness ==
    /\ pc = "decode"
    /\ out.op = "enum"
    /\ ~config.case_sensitive
    /\ current.kind = "Map"
    /\ Len(current.values) >= 2
    /\ current.values[1][1] # current.values[2][1]
    /\ VisitEnum(out).variant # Some(current.values[1][1])
    /\ Occurs(out.names, VisitEnum(out).variant[1])

---------------------------------------------------------------------------
(* Properties of the sort token, the leaves and failing insertions         *)

\* C18 (as stated): the numeric prefix of a child key's sort token is None
\* only when the key has no leading digit; every key with a leading digit
\* run, however long, gets Some(n), n the value of the run.
C18_DigitRunHasNumericPrefix ==
    (pc = "decode" /\ out.op = "seq" /\ current.kind = "Map") =>
        \A c \in 1..Len(current.values) :
            LET key == current.values[c][1]
                run == SubSeq(key, 1, DigitRun(key))
            IN  /\ SortToken(key).num = None => run = <<>>
                /\ run # <<>> => SortToken(key).num = Some(Canonical(run))

RECURSIVE LeavesWith(_, _)
\* the number of Simple leaves of `node` that hold `v`
LeavesWith(node, v) ==
    IF node.kind = "Simple"
    THEN IF node.val = v THEN 1 ELSE 0
    ELSE LET Sum[i \in 0..Len(node.values)] ==
                 IF i = 0 THEN 0 ELSE Sum[i - 1] + LeavesWith(node.values[i][2], v)
         IN  Sum[Len(node.values)]

\* C19: after a successful build the tree has one Simple leaf per retained
\* pair, the leaf values are the input values with their multiplicities,
\* and the root's Simple children are the single-segment pairs, repeated
\* keys included, in input order.
C19_OneLeafPerPair ==
    pc # "failed" =>
        LET rows    == Rows(config, input)
            singles == SelectSeq(rows, LAMBDA r : Len(r.path) = 1)
            leaves  == SelectSeq(base.values, LAMBDA kv : kv[2].kind = "Simple")
        IN  /\ LeafCount(base) = Len(rows)
            /\ \A v \in TreeValues :
                  LeavesWith(base, v)
                      = Cardinality({ i \in 1..Len(rows) : rows[i].value = Simple(v) })
            /\ leaves = [i \in 1..Len(singles) |-> <<singles[i].key, singles[i].value>>]

\* C19 witness: a finished build of two pairs with the same single-segment
\* key and different values, and a nested pair
C19_Witness ==
    /\ pc = "decode"
    /\ Len(input) = 3
    /\ \E i, j \in 1..Len(base.values) :
          /\ i < j
          /\ base.values[i][1] = base.values[j][1]
          /\ base.values[i][2].kind = "Simple"
          /\ base.values[j][2].kind = "Simple"
          /\ base.values[i][2] # base.values[j][2]
    /\ \E i \in 1..Len(base.values) : base.values[i][2].kind = "Map"

\* C20: an insert_at that returns InvalidEnvNesting leaves the tree as it
\* was before the call, without any Map node made for the failing path.
C20_FailedInsertKeepsTree ==
    pc = "failed" =>
        /\ err # None
        /\ err[1].kind = "InvalidEnvNesting"
        /\ base = BuildFromIter(config, SubSeq(input, 1, Len(input) - 1)).tree

\* C20 witness: an insertion that failed below an existing Map, in a tree
\* with a second root child
C20_Witness ==
    /\ pc = "failed"
    /\ Len(base.values) = 2
    /\ Len(Rows(config, input)[Len(input)].path) = 3
    /\ err = Some(InvalidEnvNesting(SubSeq(Rows(config, input)[Len(input)].path, 2, 3)))

---------------------------------------------------------------------------
(* Properties of the order of key processing, under SpecCaseSeparator      *)

\* `s` holds an ASCII uppercase letter
HasUppercase(s) == \E i \in 1..Len(s) : Occurs(Uppercase, s[i])

\* the pairs a case-insensitive build retains: the key lowercased, the
\* lowercased prefix, if one is configured, cut off its front
RetainedLowercase ==
    LET prefix  == IF config.prefix = None
                   THEN <<>>
                   ELSE MakeAsciiLowercase(config.prefix[1])
        Carries(pair) ==
            /\ Len(pair.key) >= Len(prefix)
            /\ SubSeq(MakeAsciiLowercase(pair.key), 1, Len(prefix)) = prefix
        carrying == SelectSeq(input, Carries)
    IN  [i \in 1..Len(carrying) |->
            <<SubSeq(MakeAsciiLowercase(carrying[i].key), Len(prefix) + 1,
                     Len(carrying[i].key)),
              Simple(carrying[i].value)>>]

\* C21: with case-sensitivity off and a separator that holds an ASCII
\* uppercase letter, the separator matches no key: the build succeeds and
\* the root's children are exactly the retained pairs, each a Simple leaf
\* under its whole lowercased, prefix-stripped key, and there is no nested
\* Map.
C21_UppercaseSeparatorNeverSplits ==
    (~config.case_sensitive /\ HasUppercase(config.separator)) =>
        /\ pc # "failed"
        /\ err = None
        /\ base = Map(RetainedLowercase)
        /\ \A i \in 1..Len(base.values) : base.values[i][2].kind = "Simple"

\* C21 witness: a finished case-insensitive build under an uppercase
\* separator and a prefix, of a retained key that holds the separator as
\* configured, a key that holds it lowercased, and a discarded key
C21_Witness ==
    /\ pc = "decode"
    /\ ~config.case_sensitive
    /\ HasUppercase(config.separator)
    /\ config.prefix # None
    /\ Len(input) = 3
    /\ Len(base.values) = 1
    /\ \E i \in 1..Len(input) :
          /\ Matches(input[i].key, config.separator) # {}
          /\ StartsWith(input[i].key, config.prefix[1])
    /\ \E i \in 1..Len(input) :
          Matches(input[i].key, MakeAsciiLowercase(config.separator)) # {}

=============================================================================
